---- MODULE Spec2Model ----
(***************************************************************************)
(* NovaStudio AI backend (src/main.py): the project and render-job         *)
(* collections and the HTTP handlers that create and read them.            *)
(*                                                                         *)
(* A document store maps ObjectIds to documents.  ObjectIds are modelled   *)
(* as positive integers; the strings a client sends or receives as ids     *)
(* are modelled as pairs: <<"hex", n>> is the 24-hex-digit string of       *)
(* ObjectId n, <<"nothex", 0>> is a string that is no ObjectId at all.     *)
(***************************************************************************)
EXTENDS Integers, Sequences, FiniteSets, TLC

VARIABLES db, projects, jobs, nextId, result

vars == <<db, projects, jobs, nextId, result>>

\* ---------------------------------------------------------------- bounds
\* Number of documents the store may hold (caps the ObjectId counter).
MaxDocs == 3

\* ------------------------------------------------------------ Python values
\* None in a string-typed Optional field.
None == "None"
\* None in a dict-typed Optional field (a record, so that it compares with dicts).
NoneDict == [is_none |-> TRUE]

\* ------------------------------------------------------------ id strings
ObjectIds == 1..MaxDocs

\* str(ObjectId)
StrOfObjectId(n) == <<"hex", n>>

\* A string that bson.ObjectId() rejects.
NotHex == <<"nothex", 0>>

\* The id strings a client may send.
IdStrings == {StrOfObjectId(n) : n \in ObjectIds} \cup {NotHex}

\* bson.ObjectId(s) succeeds exactly on 24-hex-digit strings.
ObjectIdValid(s) == s[1] = "hex"

\* bson.ObjectId(s) for a valid s.
ObjectIdOf(s) == s[2]

\* ------------------------------------------------------------ schemas
MediaIds == {"m1"}

Platforms == {"youtube", "tiktok"}

DefaultSettings ==
    [resolution |-> "1080p", fps |-> 30, aspect |-> "16:9",
     platforms |-> <<"youtube", "tiktok", "instagram">>]

ProjectDefaults ==
    [description |-> None, brand_id |-> None, template_id |-> None,
     timeline |-> NoneDict, media_ids |-> {}, settings |-> DefaultSettings]

\* Project(**fields): the given fields, defaults for the others.
Project(fields) == fields @@ ProjectDefaults

RenderJobDefaults ==
    [status |-> "queued", progress |-> 0, params |-> NoneDict,
     output_url |-> None, error |-> None]

\* RenderJob(**fields): the given fields, defaults for the others.
RenderJob(fields) == fields @@ RenderJobDefaults

\* ------------------------------------------------------------ helpers
\* to_str_id: a document's "_id" ObjectId becomes an "id" string.
to_str_id(doc) ==
    IF "_id" \in DOMAIN doc
    THEN [k \in (DOMAIN doc \ {"_id"}) \cup {"id"} |->
             IF k = "id" THEN StrOfObjectId(doc["_id"]) ELSE doc[k]]
    ELSE doc

\* collection.find_one({"_id": oid}): the stored document with its _id, or NoneDict.
find_one(coll, oid) ==
    IF oid \in DOMAIN coll THEN [_id |-> oid] @@ coll[oid] ELSE NoneDict

\* s[:n]
Take(s, n) == SubSeq(s, 1, IF Len(s) < n THEN Len(s) ELSE n)

ExcerptLen == 400

\* ------------------------------------------------------------ initial state
NoResult == [op |-> "none", arg |-> NotHex, code |-> 0, body |-> NoneDict]

Init ==
    /\ db \in BOOLEAN
    /\ projects = <<>>
    /\ jobs = <<>>
    /\ nextId = 1
    /\ result = NoResult


\* ------------------------------------------------------------ persistence
\* HTTP outcome of a handler whose create_document call raised.
ServerError(op, arg) == [op |-> op, arg |-> arg, code |-> 500, body |-> NoneDict]

\* create_document(collection, data): stores data under a fresh ObjectId.
\* Yields the collection after the insert; the id is nextId.
create_document(coll, data) == (nextId :> data) @@ coll

\* ------------------------------------------------------------ request inputs
\* Timelines a client may send to create_project: none, or one visuals track
\* whose clip names a media id.
TimelineInputs ==
    {NoneDict}
    \cup {[tracks |-> <<[type |-> "visuals", media_id |-> m]>>] : m \in MediaIds}

\* Settings a client may send to create_project (a free-form dict); a project
\* sent without settings gets DefaultSettings.
SettingsInputs ==
    {[resolution |-> "1080p", fps |-> 30, aspect |-> "16:9", platforms |-> ps] :
        ps \in {<<>>}}

ProjectInputs ==
    {Project([title |-> "t", timeline |-> tl, media_ids |-> ms]) :
        tl \in TimelineInputs, ms \in SUBSET MediaIds}
    \cup
    {Project([title |-> "t", timeline |-> tl, media_ids |-> ms, settings |-> st]) :
        tl \in TimelineInputs, ms \in SUBSET MediaIds, st \in SettingsInputs}

Scripts == {<<"h", "i">>}

ScriptToVideoRequests ==
    {[title |-> "t", script |-> sc, language |-> "en", platform |-> pf,
      voice_style |-> "neutral", include_subtitles |-> TRUE] :
        sc \in Scripts, pf \in Platforms}

EditCommandRequests ==
    {[project_id |-> p, command |-> "cut", language |-> "en"] : p \in IdStrings}

\* ------------------------------------------------------------ handlers
\* POST /api/projects
create_project(project) ==
    /\ nextId <= MaxDocs
    /\ IF db
       THEN /\ projects' = create_document(projects, project)
            /\ nextId' = nextId + 1
            /\ result' = [op |-> "create_project", arg |-> NotHex, code |-> 200,
                          body |-> [id |-> StrOfObjectId(nextId)]]
       ELSE /\ result' = ServerError("create_project", NotHex)
            /\ UNCHANGED <<projects, nextId>>
    /\ UNCHANGED <<db, jobs>>

\* GET /api/projects/{project_id}
get_project(project_id) ==
    /\ result' =
         IF ~db
         THEN [op |-> "get_project", arg |-> project_id, code |-> 500, body |-> NoneDict]
         ELSE IF ~ObjectIdValid(project_id)
         THEN [op |-> "get_project", arg |-> project_id, code |-> 400, body |-> NoneDict]
         ELSE IF find_one(projects, ObjectIdOf(project_id)) = NoneDict
         THEN [op |-> "get_project", arg |-> project_id, code |-> 404, body |-> NoneDict]
         ELSE [op |-> "get_project", arg |-> project_id, code |-> 200,
               body |-> to_str_id(find_one(projects, ObjectIdOf(project_id)))]
    /\ UNCHANGED <<db, projects, jobs, nextId>>

\* The project script_to_video builds from its request.
ScriptProject(req) ==
    Project([title |-> req.title,
             description |-> <<"Auto-generated from script for ", req.platform>>,
             timeline |->
                [tracks |-> <<[type |-> "voiceover", language |-> req.language,
                               style |-> req.voice_style],
                              [type |-> "subtitles", enabled |-> req.include_subtitles],
                              [type |-> "visuals", source |-> "stock+ai"]>>,
                 script_excerpt |-> Take(req.script, ExcerptLen)],
             settings |->
                [resolution |-> "1080p", fps |-> 30,
                 aspect |-> IF req.platform = "tiktok" THEN "9:16" ELSE "16:9",
                 platforms |-> <<req.platform>>]])

\* ScriptJob built without status="completed": the schema default applies.
ScriptJobDefaultStatus(req, project_id) ==
    RenderJob([project_id |-> project_id,
               job_type |-> "render",
               progress |-> 100,
               params |-> [language |-> req.language, platform |-> req.platform],
               output_url |-> "sample-output.mp4"])

\* The render job script_to_video stores for the project it created.
ScriptJob(req, project_id) ==
    RenderJob([project_id |-> project_id,
               job_type |-> "render",
               status |-> "completed",
               progress |-> 100,
               params |-> [language |-> req.language, platform |-> req.platform],
               output_url |-> "sample-output.mp4"])

\* POST /api/scripts-to-video
script_to_video(req) ==
    /\ nextId + 1 <= MaxDocs
    /\ IF db
       THEN /\ projects' = create_document(projects, ScriptProject(req))
            /\ jobs' = (nextId + 1 :> ScriptJob(req, StrOfObjectId(nextId))) @@ jobs
            /\ nextId' = nextId + 2
            /\ result' = [op |-> "script_to_video", arg |-> NotHex, code |-> 200,
                          body |-> [project_id |-> StrOfObjectId(nextId),
                                    job_id |-> StrOfObjectId(nextId + 1),
                                    status |-> "completed",
                                    output_url |->
                                        ScriptJob(req, StrOfObjectId(nextId)).output_url]]
       ELSE /\ result' = ServerError("script_to_video", NotHex)
            /\ UNCHANGED <<projects, jobs, nextId>>
    /\ UNCHANGED db

simulated_diff ==
    [actions |-> <<[op |-> "cut", from |-> "00:10", to |-> "00:14"],
                   [op |-> "add_broll", query |-> "city skyline"],
                   [op |-> "color", mode |-> "auto-correct"]>>]

\* EditJob stored as still running.
EditJobRunning(req) ==
    RenderJob([project_id |-> req.project_id,
               job_type |-> "edit",
               status |-> "running",
               progress |-> 100,
               params |-> [command |-> req.command, language |-> req.language],
               output_url |-> None])

\* EditJob built without status="completed": queued, yet with an output_url.
EditJobDefaultStatus(req) ==
    RenderJob([project_id |-> req.project_id,
               job_type |-> "edit",
               progress |-> 100,
               params |-> [command |-> req.command, language |-> req.language],
               output_url |-> "edited-preview.mp4"])

\* EditJob whose progress overshoots the scale.
EditJobOvershoot(req) ==
    RenderJob([project_id |-> req.project_id,
               job_type |-> "edit",
               status |-> "completed",
               progress |-> 101,
               params |-> [command |-> req.command, language |-> req.language],
               output_url |-> "edited-preview.mp4"])

\* The job record ai_edit stores.
EditJob(req) ==
    RenderJob([project_id |-> req.project_id,
               job_type |-> "edit",
               status |-> "completed",
               progress |-> 100,
               params |-> [command |-> req.command, language |-> req.language],
               output_url |-> "edited-preview.mp4"])

\* ai_edit keeping one job per project: it overwrites the project's job, if any.
ai_edit_upsert(req) ==
    /\ nextId <= MaxDocs
    /\ IF db
       THEN /\ jobs' = IF \E j \in DOMAIN jobs : jobs[j].project_id = req.project_id
                       THEN [j \in DOMAIN jobs |->
                                IF jobs[j].project_id = req.project_id
                                THEN EditJob(req) ELSE jobs[j]]
                       ELSE create_document(jobs, EditJob(req))
            /\ nextId' = nextId + 1
            /\ result' = [op |-> "ai_edit", arg |-> req.project_id, code |-> 200,
                          body |-> [job_id |-> StrOfObjectId(nextId),
                                    status |-> "completed",
                                    diff |-> simulated_diff,
                                    preview_url |-> EditJob(req).output_url]]
       ELSE /\ result' = ServerError("ai_edit", req.project_id)
            /\ UNCHANGED <<jobs, nextId>>
    /\ UNCHANGED <<db, projects>>

\* ai_edit that also writes the simulated diff into the project's timeline.
ai_edit_apply_diff(req) ==
    /\ nextId <= MaxDocs
    /\ IF db
       THEN /\ jobs' = create_document(jobs, EditJob(req))
            /\ projects' = [p \in DOMAIN projects |->
                              IF StrOfObjectId(p) = req.project_id
                              THEN [projects[p] EXCEPT !.timeline = simulated_diff]
                              ELSE projects[p]]
            /\ nextId' = nextId + 1
            /\ result' = [op |-> "ai_edit", arg |-> req.project_id, code |-> 200,
                          body |-> [job_id |-> StrOfObjectId(nextId),
                                    status |-> "completed",
                                    diff |-> simulated_diff,
                                    preview_url |-> EditJob(req).output_url]]
       ELSE /\ result' = ServerError("ai_edit", req.project_id)
            /\ UNCHANGED <<jobs, projects, nextId>>
    /\ UNCHANGED db

\* POST /api/ai/edit
ai_edit(req) ==
    /\ nextId <= MaxDocs
    /\ IF db
       THEN /\ jobs' = create_document(jobs, EditJob(req))
            /\ nextId' = nextId + 1
            /\ result' = [op |-> "ai_edit", arg |-> req.project_id, code |-> 200,
                          body |-> [job_id |-> StrOfObjectId(nextId),
                                    status |-> "completed",
                                    diff |-> simulated_diff,
                                    preview_url |-> EditJob(req).output_url]]
       ELSE /\ result' = ServerError("ai_edit", req.project_id)
            /\ UNCHANGED <<jobs, nextId>>
    /\ UNCHANGED <<db, projects>>

\* get_render_job without the "Job not found" check.
get_render_job_no_404(job_id) ==
    /\ result' =
         IF ~db
         THEN [op |-> "get_render_job", arg |-> job_id, code |-> 500, body |-> NoneDict]
         ELSE IF ~ObjectIdValid(job_id)
         THEN [op |-> "get_render_job", arg |-> job_id, code |-> 400, body |-> NoneDict]
         ELSE [op |-> "get_render_job", arg |-> job_id, code |-> 200,
               body |-> to_str_id(find_one(jobs, ObjectIdOf(job_id)))]
    /\ UNCHANGED <<db, projects, jobs, nextId>>

\* GET /api/renderjobs/{job_id}
get_render_job(job_id) ==
    /\ result' =
         IF ~db
         THEN [op |-> "get_render_job", arg |-> job_id, code |-> 500, body |-> NoneDict]
         ELSE IF ~ObjectIdValid(job_id)
         THEN [op |-> "get_render_job", arg |-> job_id, code |-> 400, body |-> NoneDict]
         ELSE IF find_one(jobs, ObjectIdOf(job_id)) = NoneDict
         THEN [op |-> "get_render_job", arg |-> job_id, code |-> 404, body |-> NoneDict]
         ELSE [op |-> "get_render_job", arg |-> job_id, code |-> 200,
               body |-> to_str_id(find_one(jobs, ObjectIdOf(job_id)))]
    /\ UNCHANGED <<db, projects, jobs, nextId>>

Next ==
    \/ \E project \in ProjectInputs : create_project(project)
    \/ \E project_id \in IdStrings : get_project(project_id)
    \/ \E req \in ScriptToVideoRequests : script_to_video(req)
    \/ \E req \in EditCommandRequests : ai_edit(req)
    \/ \E job_id \in IdStrings : get_render_job(job_id)

Spec == Init /\ [][Next]_vars

\* ============================================================ properties
JobStatuses == {"queued", "running", "completed", "failed", "cancelled"}

TerminalStatuses == {"completed", "failed", "cancelled"}

\* The media ids the clips of a timeline name.
TimelineRefs(timeline) ==
    IF "tracks" \in DOMAIN timeline
    THEN {timeline.tracks[i].media_id :
            i \in {k \in 1..Len(timeline.tracks) : "media_id" \in DOMAIN timeline.tracks[k]}}
    ELSE {}

C2_OneRunningPerProject ==
    \A s \in IdStrings :
        Cardinality({j \in DOMAIN jobs :
                        jobs[j].project_id = s /\ jobs[j].status = "running"}) <= 1

\* Two jobs were submitted for one stored project.
C2_Witness ==
    \E p \in DOMAIN projects :
        Cardinality({j \in DOMAIN jobs : jobs[j].project_id = StrOfObjectId(p)}) >= 2

\* ---------------------------------------------------------------- C3
\* C3: an ai_edit submission for a stored project whose timeline names a media
\* id outside the project's media_ids is rejected (no success response) and
\* leaves the stored job records unchanged.
C3_InvalidTimelineRejected ==
    [][\A p \in DOMAIN projects :
         (/\ result'.op = "ai_edit"
          /\ result'.arg = StrOfObjectId(p)
          /\ ~(TimelineRefs(projects[p].timeline) \subseteq projects[p].media_ids))
         => (result'.code # 200 /\ jobs' = jobs)]_vars

\* ---------------------------------------------------------------- C4
\* C4: in every reachable state, a stored job has an output_url only if its
\* status is 'completed' and an error only if its status is 'failed'.
C4_OutputOnlyCompleted ==
    \A j \in DOMAIN jobs :
        /\ jobs[j].output_url # None => jobs[j].status = "completed"
        /\ jobs[j].error # None => jobs[j].status = "failed"

\* An edit job with an output_url is stored.
C4_Witness ==
    \E j \in DOMAIN jobs : jobs[j].job_type = "edit" /\ jobs[j].output_url # None

\* ---------------------------------------------------------------- C5
\* C5: every stored job's progress is within 0..100 in every reachable state,
\* and no step lowers the progress of a stored job.
C5_ProgressBoundedMonotone ==
    /\ [](\A j \in DOMAIN jobs : jobs[j].progress \in 0..100)
    /\ [][\A j \in DOMAIN jobs :
            j \in DOMAIN jobs' /\ jobs'[j].progress >= jobs[j].progress]_vars

\* A job stored earlier is still there after a later submission succeeded.
C5_Witness ==
    /\ result.op \in {"ai_edit", "script_to_video"}
    /\ result.code = 200
    /\ \E j \in DOMAIN jobs :
          StrOfObjectId(j) # result.body.job_id /\ jobs[j].progress = 100

\* ---------------------------------------------------------------- C6
\* C6 (as stated): every get_render_job call, whatever the job id and the
\* store, answers with a job record of a well-defined status, never an error.
C6_PollNeverFails ==
    result.op = "get_render_job" =>
        /\ result.code = 200
        /\ "status" \in DOMAIN result.body
        /\ result.body.status \in JobStatuses

\* C6 (amended): get_render_job answers with the stored record, whose status
\* is well defined, exactly when the database is available and the id is the
\* well-formed id of a stored job; otherwise it answers with an error: 500
\* without a database, else 400 for a malformed id, else 404.
C6_PollOutcome ==
    result.op = "get_render_job" =>
        LET found == db /\ ObjectIdValid(result.arg)
                        /\ ObjectIdOf(result.arg) \in DOMAIN jobs
        IN  /\ result.code = 200 <=> found
            /\ result.code = 500 <=> ~db
            /\ result.code = 400 <=> (db /\ ~ObjectIdValid(result.arg))
            /\ result.code = 404 <=> (db /\ ObjectIdValid(result.arg) /\ ~found)
            /\ found =>
                  /\ result.body.id = result.arg
                  /\ result.body.status = jobs[ObjectIdOf(result.arg)].status
                  /\ result.body.status \in JobStatuses
            /\ ~found => result.body = NoneDict

\* A stored job was polled and its record returned.
C6_Witness ==
    /\ result.op = "get_render_job"
    /\ result.code = 200
    /\ result.body.status \in JobStatuses

\* ---------------------------------------------------------------- C7
\* C7: once a stored job's status is terminal, no step removes the job or
\* changes any field of its record.
C7_TerminalFrozen ==
    [][\A j \in DOMAIN jobs :
         jobs[j].status \in TerminalStatuses =>
            (j \in DOMAIN jobs' /\ jobs'[j] = jobs[j])]_vars

\* A terminal render job is stored and a later ai_edit for its project succeeded.
C7_Witness ==
    /\ result.op = "ai_edit"
    /\ result.code = 200
    /\ \E j \in DOMAIN jobs :
          /\ jobs[j].job_type = "render"
          /\ jobs[j].status \in TerminalStatuses
          /\ jobs[j].project_id = result.arg

\* ---------------------------------------------------------------- C8
\* C8: no step removes a stored project or changes its record.
C8_ProjectsUntouched ==
    [][\A p \in DOMAIN projects :
         p \in DOMAIN projects' /\ projects'[p] = projects[p]]_vars

\* A job was just created by ai_edit for a stored project.
C8_Witness ==
    /\ result.op = "ai_edit"
    /\ result.code = 200
    /\ ObjectIdValid(result.arg)
    /\ ObjectIdOf(result.arg) \in DOMAIN projects

\* ---------------------------------------------------------------- C9
\* C9: in every reachable state, every stored job's project_id is the id of a
\* stored project.
C9_JobHasProject ==
    \A j \in DOMAIN jobs :
        \E p \in DOMAIN projects : jobs[j].project_id = StrOfObjectId(p)

\* ---------------------------------------------------------------- C10
\* C10: in every reachable state, every stored project's settings.platforms
\* list is non-empty.
C10_PlatformsNonEmpty ==
    \A p \in DOMAIN projects : Len(projects[p].settings.platforms) > 0
====
